---- MODULE Spec2Model ----
(***************************************************************************)
(* Model of Express-Server/handlers/handleGet.js: the trace-id unifier     *)
(* (modifyIDsToUnique and its helpers), the hint normalizer and the        *)
(* request handler handleGet.                                              *)
(*                                                                         *)
(* JavaScript strings are sequences of one-character strings; a JavaScript *)
(* object is the sequence of its [key, value] entries in insertion order.  *)
(***************************************************************************)
EXTENDS Integers, Sequences, FiniteSets, TLC

VARIABLES
    lastWrittenNumbers, \* the request's document numbers, line 180
    store,              \* the out<number>.inkml files: number -> document
    inv,                \* per command: "pending", "ok" or "failed" (the map callback's promise)
    values,             \* per command: the value its callback returned
    order,              \* the commands in the order in which they completed
    pc,                 \* where handleGet stands: "awaitAll", "normalize", "awaitExtract", "done"
    awaited,            \* results as Promise.all delivered them, line 183
    results,            \* results, lines 211 and 214
    outFilesAllInfo,    \* the object extractAllInformation returned, line 134
    uniqueIDsInfo,      \* the object modifyIDsToUnique returned, line 136
    persisted,          \* the calls of createFileFromInfo, line 138
    response            \* the responses sent, lines 226 and 229

vars == <<lastWrittenNumbers, store, inv, values, order, pc, awaited, results,
          outFilesAllInfo, uniqueIDsInfo, persisted, response>>

(***************************************************************************)
(* Bounds                                                                  *)
(***************************************************************************)
MaxBatchSize == 5   \* traces, trace groups and references of one whole batch
MaxHintLen == 4     \* characters of a hint taken from all strings over Alphabet
MaxPayload == 3     \* characters between the brackets of a composed hint
DocIds == {2, 5, 8} \* the sequence numbers a batch is drawn from

(***************************************************************************)
(* JavaScript values                                                       *)
(***************************************************************************)
Digit(d) ==
    CASE d = 0 -> "0" [] d = 1 -> "1" [] d = 2 -> "2" [] d = 3 -> "3"
      [] d = 4 -> "4" [] d = 5 -> "5" [] d = 6 -> "6" [] d = 7 -> "7"
      [] d = 8 -> "8" [] d = 9 -> "9"

DigitValue(c) ==
    CASE c = "0" -> 0 [] c = "1" -> 1 [] c = "2" -> 2 [] c = "3" -> 3
      [] c = "4" -> 4 [] c = "5" -> 5 [] c = "6" -> 6 [] c = "7" -> 7
      [] c = "8" -> 8 [] c = "9" -> 9

\* String(n) for a non-negative integer: its decimal digits
RECURSIVE String(_)
String(n) == IF n < 10 THEN <<Digit(n)>> ELSE Append(String(n \div 10), Digit(n % 10))

\* Number(s) for a string of decimal digits
RECURSIVE Number(_)
Number(s) ==
    IF Len(s) = 0 THEN 0
    ELSE 10 * Number(SubSeq(s, 1, Len(s) - 1)) + DigitValue(s[Len(s)])

\* what reading a missing property yields
Undefined == <<"undefined">>

Keys(obj) == {obj[i].key : i \in 1..Len(obj)}

Get(obj, k) ==
    IF k \in Keys(obj) THEN obj[CHOOSE i \in 1..Len(obj) : obj[i].key = k].value
    ELSE Undefined

\* obj[k] = v: an existing key keeps its place, a new key is added last
Put(obj, k, v) ==
    IF k \in Keys(obj)
    THEN [i \in 1..Len(obj) |-> IF obj[i].key = k THEN [key |-> k, value |-> v] ELSE obj[i]]
    ELSE Append(obj, [key |-> k, value |-> v])

RECURSIVE Ascending(_)
Ascending(ks) ==
    IF ks = {} THEN <<>>
    ELSE LET m == CHOOSE k \in ks : \A o \in ks : Number(k) <= Number(o)
         IN <<m>> \o Ascending(ks \ {m})

InsertionOrderKeys(obj) == [i \in 1..Len(obj) |-> obj[i].key]

\* own properties visited in the order they were added
OwnKeys_insertionOrder(obj) == InsertionOrderKeys(obj)

\* the order in which for-in and JSON.stringify visit the own properties of an
\* object whose keys are all integer-like: ascending numeric order
OwnKeys(obj) == Ascending(Keys(obj))

\* JSON.parse(JSON.stringify(obj)) of an object of plain data
JSONClone(obj) ==
    LET ks == OwnKeys(obj)
    IN [i \in 1..Len(ks) |-> [key |-> ks[i], value |-> Get(obj, ks[i])]]

(***************************************************************************)
(* Strings and the two regular expressions of handleGet                    *)
(*                                                                         *)
(* A string is a sequence of characters.  The words sum, lt, gt, leq, geq, *)
(* COMMA and LaTeX: are single characters of the model: the strings it     *)
(* ranges over hold their letters nowhere else.                            *)
(***************************************************************************)
BS == "\\"                              \* the backslash
WhiteSpace == {" ", "\n"}               \* what \s matches and trim removes
LineTerminators == {"\n"}               \* what . does not match
CmpNames == {"lt", "gt", "leq", "geq"}  \* \lt \gt \leq \geq, line 196

At(s, i) == IF i \in 1..Len(s) THEN s[i] ELSE "<end>"

Slice(s, a, b) == IF a > b THEN <<>> ELSE SubSeq(s, a, b)

\* String.prototype.trim
trim(s) ==
    LET keep == {i \in 1..Len(s) : s[i] \notin WhiteSpace}
    IN IF keep = {} THEN <<>>
       ELSE Slice(s, CHOOSE i \in keep : \A j \in keep : i <= j,
                     CHOOSE i \in keep : \A j \in keep : i >= j)

\* /LaTeX:\s*(.*)/ : where group 1 starts and ends for the leftmost match,
\* <<0, 0>> when the input has no match
LatexGroup(input) ==
    LET ms == {i \in 1..Len(input) : input[i] = "LaTeX:"}
    IN IF ms = {} THEN <<0, 0>>
       ELSE LET m == CHOOSE i \in ms : \A j \in ms : i <= j
                a == CHOOSE i \in (m + 1)..(Len(input) + 1) :
                        /\ At(input, i) \notin WhiteSpace
                        /\ \A j \in (m + 1)..(i - 1) : input[j] \in WhiteSpace
                b == CHOOSE i \in a..(Len(input) + 1) :
                        /\ (i = Len(input) + 1 \/ input[i] \in LineTerminators)
                        /\ \A j \in a..(i - 1) : input[j] \notin LineTerminators
            IN <<a, b - 1>>

\* input.match(regex) is null, so that matches[1] throws a TypeError
extractThrows(input) == LatexGroup(input) = <<0, 0>>

extractLatexExpression(input) ==
    LET g == LatexGroup(input) IN trim(Slice(input, g[1], g[2]))

\* .replace(/ COMMA /g, ", "), from position i on
RECURSIVE replaceComma(_, _)
replaceComma(s, i) ==
    IF i > Len(s) THEN <<>>
    ELSE IF s[i] = " " /\ At(s, i + 1) = "COMMA" /\ At(s, i + 2) = " "
         THEN <<",", " ">> \o replaceComma(s, i + 3)
         ELSE <<s[i]>> \o replaceComma(s, i + 1)

\* the length of the operator (=|\\lt|\\gt|\\leq|\\geq) at position i, 0 if none
OpLen(s, i) ==
    IF At(s, i) = "=" THEN 1
    ELSE IF At(s, i) = BS /\ At(s, i + 1) \in CmpNames THEN 2
    ELSE 0

AnyChar(s, a, b) == \A j \in a..b : s[j] \notin LineTerminators

\* the match of the regex of line 196 that starts at position i:
\* [ok, op (group 1), group2, sum (group 4 took part), body (group 4 or group 6)]
MatchAt(s, i) ==
    LET n == OpLen(s, i)
        b == i + n + 2
        NoMatch == [ok |-> FALSE, op |-> <<>>, group2 |-> <<>>, sum |-> FALSE, body |-> <<>>]
    IN IF n = 0 \/ At(s, i + n) # "_" \/ At(s, i + n + 1) # "{" THEN NoMatch
       ELSE IF At(s, b) = BS /\ At(s, b + 1) = "sum"
       THEN \* \\sum\s*(.*?) and the closing brace
            LET c == CHOOSE k \in (b + 2)..(Len(s) + 1) :
                        /\ At(s, k) \notin WhiteSpace
                        /\ \A j \in (b + 2)..(k - 1) : s[j] \in WhiteSpace
                es == {e \in c..Len(s) : s[e] = "}" /\ AnyChar(s, c, e - 1)}
            IN IF es = {} THEN NoMatch
               ELSE LET e == CHOOSE x \in es : \A y \in es : x <= y
                    IN [ok |-> TRUE, op |-> Slice(s, i, i + n - 1),
                        group2 |-> Slice(s, b, e - 1), sum |-> TRUE,
                        body |-> Slice(s, c, e - 1)]
       ELSE IF At(s, b) = BS /\ At(s, b + 1) = "{"
       THEN \* \\{(.+?)\\} 3? and the closing brace
            LET es == {e \in (b + 3)..Len(s) :
                         /\ s[e] = BS /\ At(s, e + 1) = "}"
                         /\ \/ At(s, e + 2) = "}"
                            \/ At(s, e + 2) = "3" /\ At(s, e + 3) = "}"
                         /\ AnyChar(s, b + 2, e - 1)}
            IN IF es = {} THEN NoMatch
               ELSE LET e == CHOOSE x \in es : \A y \in es : x <= y
                        z == IF At(s, e + 2) = "}" THEN e + 1 ELSE e + 2
                    IN [ok |-> TRUE, op |-> Slice(s, i, i + n - 1),
                        group2 |-> Slice(s, b, z), sum |-> FALSE,
                        body |-> Slice(s, b + 2, e - 1)]
       ELSE NoMatch

\* regex.exec(result): the leftmost match, ok = FALSE for null
regexExec(s) ==
    LET starts == {i \in 1..Len(s) : MatchAt(s, i).ok}
    IN IF starts = {} THEN MatchAt(s, 0)
       ELSE MatchAt(s, CHOOSE i \in starts : \A j \in starts : i <= j)

\* .replace(/3$/, "")
stripTrailing3(s) == IF Len(s) > 0 /\ s[Len(s)] = "3" THEN Slice(s, 1, Len(s) - 1) ELSE s

\* the hint keeps the summation symbol
correctHint_keepsSum(result) ==
    LET match == regexExec(result)
        hint == IF ~match.sum THEN trim(match.body) ELSE trim(stripTrailing3(match.group2))
    IN IF ~match.ok THEN result
       ELSE match.op \o <<BS, "{">> \o hint \o <<BS, "}">>

\* lines 202-211 for one odd-indexed result
correctHint(result) ==
    LET match == regexExec(result)
        hint == IF ~match.sum THEN trim(match.body) ELSE trim(stripTrailing3(match.body))
    IN IF ~match.ok THEN result
       ELSE match.op \o <<BS, "{">> \o hint \o <<BS, "}">>

\* .replace(/=_/g, "="), from position i on
RECURSIVE removeUnderscoreAfterEq(_, _)
removeUnderscoreAfterEq(s, i) ==
    IF i > Len(s) THEN <<>>
    ELSE IF s[i] = "=" /\ At(s, i + 1) = "_"
         THEN <<"=">> \o removeUnderscoreAfterEq(s, i + 2)
         ELSE <<s[i]>> \o removeUnderscoreAfterEq(s, i + 1)

\* .replace(/=\{\\{(.+?)\\}\}/g, "={$1}"), from position i on
RECURSIVE removeExtraBraces(_, _)
removeExtraBraces(s, i) ==
    IF i > Len(s) THEN <<>>
    ELSE LET es == {e \in (i + 5)..Len(s) :
                       /\ s[e] = BS /\ At(s, e + 1) = "}" /\ At(s, e + 2) = "}"
                       /\ AnyChar(s, i + 4, e - 1)}
         IN IF s[i] = "=" /\ At(s, i + 1) = "{" /\ At(s, i + 2) = BS /\ At(s, i + 3) = "{"
               /\ es # {}
            THEN LET e == CHOOSE x \in es : \A y \in es : x <= y
                 IN <<"=", "{">> \o Slice(s, i + 4, e - 1) \o <<"}">>
                       \o removeExtraBraces(s, e + 3)
            ELSE <<s[i]>> \o removeExtraBraces(s, i + 1)

\* .replace(/(_=|_\\lt|_\\gt|_\\leq|_\\geq)/g, (m) => m.slice(1)), from i on
RECURSIVE removeUnderscoreBeforeOp(_, _)
removeUnderscoreBeforeOp(s, i) ==
    IF i > Len(s) THEN <<>>
    ELSE IF s[i] = "_" /\ OpLen(s, i + 1) > 0
         THEN Slice(s, i + 1, i + OpLen(s, i + 1))
                 \o removeUnderscoreBeforeOp(s, i + 1 + OpLen(s, i + 1))
         ELSE <<s[i]>> \o removeUnderscoreBeforeOp(s, i + 1)

\* no cleanup pass
cleanup_skipped(result) == result

\* lines 214-220 for one result
cleanup(result) ==
    removeUnderscoreBeforeOp(removeExtraBraces(removeUnderscoreAfterEq(result, 1), 1), 1)

\* lines 198-220: the correction of the odd-indexed results (index i - 1 in
\* the source), then the cleanup of all of them
normalize(rs) ==
    [i \in 1..Len(rs) |->
        cleanup(IF (i - 1) % 2 = 0 THEN rs[i] ELSE correctHint(rs[i]))]

(***************************************************************************)
(* The unifier                                                             *)
(***************************************************************************)
\* the counter is not carried over to the next document
assignUniqueTraceIDs_counterLost(traces, traceIdCounter) ==
    [updatedTraces |->
        [i \in 1..Len(traces) |-> [traces[i] EXCEPT !.id = String(traceIdCounter + i - 1)]],
     traceIdCounter |-> traceIdCounter]

assignUniqueTraceIDs(traces, traceIdCounter) ==
    [updatedTraces |->
        [i \in 1..Len(traces) |-> [traces[i] EXCEPT !.id = String(traceIdCounter + i - 1)]],
     traceIdCounter |-> traceIdCounter + Len(traces)]

\* the reduce of lines 107-110: old id -> new id, a later trace overwriting
\* an earlier one of the same old id
RECURSIVE traceIdChangesOf(_, _, _)
traceIdChangesOf(traces, updatedTraces, n) ==
    IF n = 0 THEN <<>>
    ELSE Put(traceIdChangesOf(traces, updatedTraces, n - 1), traces[n].id, updatedTraces[n].id)

\* lines 58-66, the first n properties of traceGroups in for-in order
RECURSIVE updateRefsLoop(_, _, _, _)
updateRefsLoop(traceGroups, traceIdChanges, ks, n) ==
    IF n = 0 THEN <<>>
    ELSE LET groupData == Get(traceGroups, ks[n])
             refs == groupData.traceDataRefs
         IN Put(updateRefsLoop(traceGroups, traceIdChanges, ks, n - 1), ks[n],
                [groupData EXCEPT !.traceDataRefs =
                    [j \in 1..Len(refs) |-> Get(traceIdChanges, refs[j])]])

\* the references are copied, not rewritten
updateTraceDataRefs_notRewritten(traceGroups, traceIdChanges) ==
    LET ks == OwnKeys(traceGroups)
    IN [i \in 1..Len(ks) |-> [key |-> ks[i], value |-> Get(traceGroups, ks[i])]]

updateTraceDataRefs(traceGroups, traceIdChanges) ==
    LET ks == OwnKeys(traceGroups)
    IN updateRefsLoop(traceGroups, traceIdChanges, ks, Len(ks))

\* lines 77-82, the first n properties of traceGroups in for-in order
RECURSIVE assignGroupIDsLoop(_, _, _, _)
assignGroupIDsLoop(traceGroups, groupIdCounter, ks, n) ==
    IF n = 0 THEN <<>>
    ELSE Put(assignGroupIDsLoop(traceGroups, groupIdCounter, ks, n - 1),
             String(groupIdCounter + n - 1), Get(traceGroups, ks[n]))

assignUniqueTraceGroupIDs(traceGroups, groupIdCounter) ==
    LET ks == OwnKeys(traceGroups)
    IN [updatedTraceGroups |-> assignGroupIDsLoop(traceGroups, groupIdCounter, ks, Len(ks)),
        groupIdCounter |-> groupIdCounter + Len(ks)]

\* one iteration of the loop of modifyIDsToUnique, on the document outFile
unifyOne(st, outFile) ==
    LET inkmlData == Get(st.modifiedInfo, outFile)
        a == assignUniqueTraceIDs(inkmlData.traces, st.traceIdCounter)
        traceIdChanges == traceIdChangesOf(inkmlData.traces, a.updatedTraces, Len(inkmlData.traces))
        updatedTraceGroups == updateTraceDataRefs(inkmlData.traceGroups, traceIdChanges)
        g == assignUniqueTraceGroupIDs(updatedTraceGroups, st.groupIdCounter)
    IN [modifiedInfo |-> Put(st.modifiedInfo, outFile,
                             [traces |-> a.updatedTraces, traceGroups |-> g.updatedTraceGroups]),
        traceIdCounter |-> a.traceIdCounter,
        groupIdCounter |-> g.groupIdCounter]

RECURSIVE unifyLoop(_, _, _)
unifyLoop(st, ks, n) ==
    IF n = 0 THEN st ELSE unifyOne(unifyLoop(st, ks, n - 1), ks[n])

\* the counters start at 0
modifyIDsToUnique_fromZero(outFileAllInfo) ==
    LET modifiedInfo == JSONClone(outFileAllInfo)
        ks == OwnKeys(modifiedInfo)
    IN unifyLoop([modifiedInfo |-> modifiedInfo, traceIdCounter |-> 0, groupIdCounter |-> 0],
                 ks, Len(ks)).modifiedInfo

modifyIDsToUnique(outFileAllInfo) ==
    LET modifiedInfo == JSONClone(outFileAllInfo)
        ks == OwnKeys(modifiedInfo)
    IN unifyLoop([modifiedInfo |-> modifiedInfo, traceIdCounter |-> 1, groupIdCounter |-> 1],
                 ks, Len(ks)).modifiedInfo

(***************************************************************************)
(* Inputs of the unifier                                                   *)
(***************************************************************************)
SeqsUpTo(S, n) == UNION {[1..k -> S] : k \in 0..n}

\* the local trace ids of a document
LocalIds == {String(1), String(2)}

\* a document as extractAllInformation returns it: its traces in document
\* order and its groups keyed by local group id
DocumentOf(ids, refs) ==
    [traces |-> [i \in 1..Len(ids) |-> [id |-> ids[i], data |-> i]],
     traceGroups |-> [i \in 1..Len(refs) |-> [key |-> String(i), value |-> [traceDataRefs |-> refs[i]]]]]

\* the traces, trace groups and references of a document
RECURSIVE SumRefs(_, _)
SumRefs(groups, n) ==
    IF n = 0 THEN 0 ELSE SumRefs(groups, n - 1) + Len(groups[n].value.traceDataRefs)

Size(doc) ==
    Len(doc.traces) + Len(doc.traceGroups) + SumRefs(doc.traceGroups, Len(doc.traceGroups))

\* the lists of traceDataRefs lists with at most budget groups and references
RECURSIVE GroupLists(_)
GroupLists(budget) ==
    IF budget < 1 THEN {<<>>}
    ELSE {<<>>} \cup UNION {{<<r>> \o rest : rest \in GroupLists(budget - 1 - Len(r))} :
                               r \in SeqsUpTo(LocalIds, budget - 1)}

\* the documents of size at most budget
DocumentsUpTo(budget) ==
    UNION {{DocumentOf(ids, refs) : refs \in GroupLists(budget - Len(ids))} :
              ids \in SeqsUpTo(LocalIds, budget)}

Perms(S) == {p \in [1..Cardinality(S) -> S] : \A i, j \in 1..Cardinality(S) : i # j => p[i] # p[j]}

\* the contents of the documents D, of total size at most budget
RECURSIVE Contents(_, _)
Contents(D, budget) ==
    IF D = {} THEN {<<>>}
    ELSE LET d == CHOOSE x \in D : TRUE
         IN UNION {{(d :> doc) @@ c : c \in Contents(D \ {d}, budget - Size(doc))} :
                      doc \in DocumentsUpTo(budget)}

\* extractAllInformation(lastWrittenNumbers): one entry per document, keyed by
\* its sequence number; p is the order in which the entries were inserted
extractAllInformation(p, c) ==
    [i \in 1..Len(p) |-> [key |-> String(p[i]), value |-> c[p[i]]]]

\* the document every out<number>.inkml holds when the whole request is followed
SampleDocument == DocumentOf(<<String(2), String(1)>>, << <<String(1), String(2)>>, <<String(2)>> >>)

(***************************************************************************)
(* handleGet                                                               *)
(***************************************************************************)
\* line 22: the command names the input temp<number>.inkml and the output
\* out<number>.inkml
buildSeshatCommands(numbers) ==
    [i \in 1..Len(numbers) |-> [i |-> numbers[i], o |-> numbers[i]]]

\* what seshat prints for temp<number>.inkml
Stdout(number) ==
    CASE number = 2 -> <<"LaTeX:", " ", "x", " ", "COMMA", " ", "y", "\n", "z">>
      [] number = 5 -> <<"a", "\n", "LaTeX:", " ", "=", "_", "{", BS, "sum", " ", "i", "=", "1",
                         "}", "^", "{", "n", "}", "3", " ", "\n">>
      [] OTHER -> <<"LaTeX:", BS, "leq", "_", "{", BS, "{", "x", ",", "y", BS, "}", "}">>

\* what util.promisify(exec)(command) can resolve with: the output with an
\* empty stderr, the output with a diagnostic, an output without the marker
\* (a rejection of exec ends the callback as the diagnostic does)
ExecOutcomes(command) ==
    {[stdout |-> Stdout(command.i), stderr |-> <<>>],
     [stdout |-> Stdout(command.i), stderr |-> <<"e">>],
     [stdout |-> <<"x">>, stderr |-> <<>>]}

Indices == 1..Len(lastWrittenNumbers)

\* Promise.allSettled: waits for every promise and never rejects
PromiseAllState_allSettled(st) ==
    IF \A i \in DOMAIN st : st[i] # "pending" THEN "fulfilled" ELSE "pending"

\* Promise.any: fulfilled with the first fulfilment
PromiseAllState_any(st) ==
    IF \E i \in DOMAIN st : st[i] = "ok" THEN "fulfilled"
    ELSE IF st # <<>> /\ \A i \in DOMAIN st : st[i] = "failed" THEN "rejected"
    ELSE IF st = <<>> THEN "fulfilled"
    ELSE "pending"

\* Promise.all over the callbacks' promises: rejected with the first
\* rejection, fulfilled once all are fulfilled
PromiseAllState(st) ==
    IF \E i \in DOMAIN st : st[i] = "failed" THEN "rejected"
    ELSE IF \A i \in DOMAIN st : st[i] = "ok" THEN "fulfilled"
    ELSE "pending"

\* the values in the order in which the callbacks completed
PromiseAllValue_completionOrder(vals, completed) ==
    [k \in 1..Len(completed) |-> vals[completed[k]]]

\* the value Promise.all fulfils with: the callbacks' values by index
PromiseAllValue(vals, completed) == vals

\* catch, lines 227-230
Send500 == response' = Append(response, [status |-> 500, body |-> <<"Internal Server Error">>])

\* lines 184-192: the callback of command i resumes after its exec
Complete(i) ==
    /\ i \in Indices
    /\ inv[i] = "pending"
    /\ \E out \in ExecOutcomes(buildSeshatCommands(lastWrittenNumbers)[i]) :
          IF out.stderr # <<>> \/ extractThrows(out.stdout)
          THEN /\ inv' = [inv EXCEPT ![i] = "failed"]
               /\ UNCHANGED values
          ELSE /\ inv' = [inv EXCEPT ![i] = "ok"]
               /\ values' = [values EXCEPT ![i] =
                                replaceComma(extractLatexExpression(out.stdout), 1)]
    /\ order' = Append(order, i)
    /\ UNCHANGED <<lastWrittenNumbers, store, pc, awaited, results, outFilesAllInfo,
                   uniqueIDsInfo, persisted, response>>

\* line 183: handleGet resumes after await Promise.all
AwaitAll ==
    /\ pc = "awaitAll"
    /\ PromiseAllState(inv) # "pending"
    /\ IF PromiseAllState(inv) = "fulfilled"
       THEN /\ awaited' = PromiseAllValue(values, order)
            /\ results' = awaited'
            /\ pc' = "normalize"
            /\ UNCHANGED response
       ELSE /\ Send500
            /\ pc' = "done"
            /\ UNCHANGED <<awaited, results>>
    /\ UNCHANGED <<lastWrittenNumbers, store, inv, values, order, outFilesAllInfo,
                   uniqueIDsInfo, persisted>>

\* lines 195-224 and 134: the normalizer, then assembleSingleInkML up to its await
Normalize ==
    /\ pc = "normalize"
    /\ results' = normalize(results)
    /\ pc' = "awaitExtract"
    /\ UNCHANGED <<lastWrittenNumbers, store, inv, values, order, awaited, outFilesAllInfo,
                   uniqueIDsInfo, persisted, response>>

\* lines 134-138 and 226: assembleSingleInkML resumes after
\* extractAllInformation, and handleGet after assembleSingleInkML
Assemble ==
    /\ pc = "awaitExtract"
    /\ pc' = "done"
    /\ \/ \* extractAllInformation rejects
          /\ Send500
          /\ UNCHANGED <<outFilesAllInfo, uniqueIDsInfo, persisted>>
       \/ \E p \in Perms({lastWrittenNumbers[i] : i \in Indices}), thrown \in BOOLEAN :
             /\ outFilesAllInfo' = extractAllInformation(p, store)
             /\ uniqueIDsInfo' = modifyIDsToUnique(outFilesAllInfo')
             /\ persisted' = Append(persisted, uniqueIDsInfo')
             /\ IF thrown THEN Send500
                ELSE response' = Append(response, [status |-> 200, body |-> results])
    /\ UNCHANGED <<lastWrittenNumbers, store, inv, values, order, awaited, results>>

Next == (\E i \in Indices : Complete(i)) \/ AwaitAll \/ Normalize \/ Assemble

\* a request from its start; every file holds SampleDocument
Init ==
    /\ \E D \in SUBSET DocIds : lastWrittenNumbers \in Perms(D)
    /\ store = [d \in DocIds |-> SampleDocument]
    /\ inv = [i \in Indices |-> "pending"]
    /\ values = [i \in Indices |-> <<>>]
    /\ order = <<>>
    /\ pc = "awaitAll"
    /\ awaited = <<>>
    /\ results = <<>>
    /\ outFilesAllInfo = <<>>
    /\ uniqueIDsInfo = <<>>
    /\ persisted = <<>>
    /\ response = <<>>

Spec == Init /\ [][Next]_vars

(***************************************************************************)
(* Inputs of the normalizer                                                *)
(***************************************************************************)
Alphabet == {"=", "_", "{", "}", BS, "sum", "leq", "3", " ", "x"}

PayloadAlphabet == {" ", "x", "3", "=", "_", "}", BS}

\* the hint of the first normalizer example, =_{\sum i=1}^{n}3
SumExample ==
    <<"=", "_", "{", BS, "sum", " ", "i", "=", "1", "}", "^", "{", "n", "}", "3">>

\* the hint of the second normalizer example, \leq_{\{x,y\}}
SetExample == <<BS, "leq", "_", "{", BS, "{", "x", ",", "y", BS, "}", "}">>

\* an operator, with or without the underscore, and a bracket that holds the
\* summation symbol and a payload, or a payload in braces and perhaps a 3
ComposedHints ==
    {pre \o op \o link \o <<"{">> \o body \o <<"}">> \o post :
        pre \in {<<>>, <<"x">>},
        op \in {<<"=">>, <<BS, "leq">>},
        link \in {<<"_">>, <<>>},
        body \in UNION {{<<BS, "sum">> \o p, <<BS, "{">> \o p \o <<BS, "}">>,
                         <<BS, "{">> \o p \o <<BS, "}", "3">>} :
                            p \in SeqsUpTo(PayloadAlphabet, MaxPayload)},
        post \in {<<>>, <<"3">>, <<"}">>, <<"^", "{", "n", "}", "3">>}}

\* extractLatexExpression trims what it returns
Trimmed(s) == s = <<>> \/ (s[1] \notin WhiteSpace /\ s[Len(s)] \notin WhiteSpace)

Hints ==
    {s \in SeqsUpTo(Alphabet, MaxHintLen) \cup ComposedHints : Trimmed(s)}
        \cup {SumExample, SetExample}

\* the primary expression that goes with every hint
Primary == <<"y", "=", "_", "{", BS, "sum", " ", "x", "}">>

\* a request whose recognizer runs all succeeded, at the normalizer, over
\* every hint within the bounds
NormInit ==
    /\ lastWrittenNumbers = <<2, 5>>
    /\ store = [d \in DocIds |-> SampleDocument]
    /\ inv = [i \in Indices |-> "ok"]
    /\ \E h \in Hints : values = <<Primary, h>>
    /\ order = <<2, 1>>
    /\ pc = "normalize"
    /\ awaited = values
    /\ results = values
    /\ outFilesAllInfo = <<>>
    /\ uniqueIDsInfo = <<>>
    /\ persisted = <<>>
    /\ response = <<>>

SpecNorm == NormInit /\ [][Normalize]_vars

\* a request whose recognizer runs all succeeded, at the call of
\* assembleSingleInkML, over every batch of files within the bounds
MergeInit ==
    /\ \E D \in SUBSET DocIds :
          /\ lastWrittenNumbers =
                [i \in 1..Cardinality(D) |-> Number(Ascending({String(d) : d \in D})[i])]
          /\ store \in Contents(D, MaxBatchSize)
    /\ inv = [i \in Indices |-> "ok"]
    /\ values = [i \in Indices |-> <<"x">>]
    /\ order = [i \in Indices |-> i]
    /\ pc = "awaitExtract"
    /\ awaited = values
    /\ results = values
    /\ outFilesAllInfo = <<>>
    /\ uniqueIDsInfo = <<>>
    /\ persisted = <<>>
    /\ response = <<>>

SpecMerge == MergeInit /\ [][Assemble]_vars

(***************************************************************************)
(* Properties of the unifier                                               *)
(***************************************************************************)
Values(obj) == [i \in 1..Len(obj) |-> obj[i].value]

RECURSIVE SumLen(_, _)
SumLen(lists, n) == IF n = 0 THEN 0 ELSE SumLen(lists, n - 1) + Len(lists[n])

TraceLen(obj) == SumLen([i \in 1..Len(obj) |-> obj[i].value.traces], Len(obj))
GroupLen(obj) == SumLen([i \in 1..Len(obj) |-> obj[i].value.traceGroups], Len(obj))

TraceIdsOf(doc) == {doc.traces[i].id : i \in 1..Len(doc.traces)}
TraceIds(obj) == UNION {TraceIdsOf(obj[i].value) : i \in 1..Len(obj)}
GroupIds(obj) == UNION {Keys(obj[i].value.traceGroups) : i \in 1..Len(obj)}

Merged == pc = "done" /\ persisted # <<>>

\* C1: the merged output holds exactly as many traces, and as many groups, as
\* the batch, and their ids are pairwise distinct across all documents.
C1_Uniqueness ==
    Merged =>
        /\ Keys(uniqueIDsInfo) = Keys(outFilesAllInfo)
        /\ \A k \in Keys(outFilesAllInfo) :
              /\ Len(Get(uniqueIDsInfo, k).traces) = Len(Get(outFilesAllInfo, k).traces)
              /\ Len(Get(uniqueIDsInfo, k).traceGroups) = Len(Get(outFilesAllInfo, k).traceGroups)
              /\ \A i \in 1..Len(Get(outFilesAllInfo, k).traces) :
                    Get(uniqueIDsInfo, k).traces[i].data = Get(outFilesAllInfo, k).traces[i].data
        /\ TraceLen(uniqueIDsInfo) = TraceLen(outFilesAllInfo)
        /\ Cardinality(TraceIds(uniqueIDsInfo)) = TraceLen(outFilesAllInfo)
        /\ GroupLen(uniqueIDsInfo) = GroupLen(outFilesAllInfo)
        /\ Cardinality(GroupIds(uniqueIDsInfo)) = GroupLen(outFilesAllInfo)

\* two documents whose local trace ids and group ids coincide were merged
C1_Witness ==
    /\ Merged
    /\ \E k1, k2 \in Keys(outFilesAllInfo) :
          /\ k1 # k2
          /\ TraceIdsOf(Get(outFilesAllInfo, k1)) \cap TraceIdsOf(Get(outFilesAllInfo, k2)) # {}
          /\ Keys(Get(outFilesAllInfo, k1).traceGroups)
                \cap Keys(Get(outFilesAllInfo, k2).traceGroups) # {}

\* the local trace ids of doc are pairwise distinct and every reference of
\* its groups names one of them
DistinctLocalIds(doc) == Cardinality(TraceIdsOf(doc)) = Len(doc.traces)
RefsOf(doc) ==
    UNION {{doc.traceGroups[g].value.traceDataRefs[j] :
               j \in 1..Len(doc.traceGroups[g].value.traceDataRefs)} : g \in 1..Len(doc.traceGroups)}
RefsResolve(doc) == RefsOf(doc) \subseteq TraceIdsOf(doc)
WellFormed(obj) ==
    \A i \in 1..Len(obj) : DistinctLocalIds(obj[i].value) /\ RefsResolve(obj[i].value)

\* C2: on a well-formed batch every rewritten reference is the global id of
\* the very trace it named, and each list keeps its length and order.
C2_ReferentialIntegrity ==
    (Merged /\ WellFormed(outFilesAllInfo)) =>
        \A k \in Keys(outFilesAllInfo) :
            LET in == Get(outFilesAllInfo, k)
                out == Get(uniqueIDsInfo, k)
            IN /\ Len(out.traceGroups) = Len(in.traceGroups)
               /\ \A g \in 1..Len(in.traceGroups) :
                     LET old == in.traceGroups[g].value.traceDataRefs
                         new == out.traceGroups[g].value.traceDataRefs
                     IN /\ Len(new) = Len(old)
                        /\ \A j \in 1..Len(old) :
                              /\ new[j] \in TraceIds(uniqueIDsInfo)
                              /\ \E t \in 1..Len(in.traces) :
                                    in.traces[t].id = old[j] /\ out.traces[t].id = new[j]

\* a well-formed batch with a group naming the two traces of its document
\* out of document order, whose references the merge has changed
C2_Witness ==
    /\ Merged
    /\ WellFormed(outFilesAllInfo)
    /\ \E k \in Keys(outFilesAllInfo) :
          LET in == Get(outFilesAllInfo, k)
              out == Get(uniqueIDsInfo, k)
          IN /\ Len(in.traces) = 2
             /\ \E g \in 1..Len(in.traceGroups) :
                   /\ in.traceGroups[g].value.traceDataRefs = <<in.traces[2].id, in.traces[1].id>>
                   /\ out.traceGroups[g].value.traceDataRefs
                         # in.traceGroups[g].value.traceDataRefs

\* C3: within each document the new trace ids are consecutive and increasing
\* in list order, and over the whole batch they are exactly 1..(number of
\* traces): numbering starts at 1 and leaves no gap between documents.
C3_ConsecutiveIds ==
    Merged =>
        /\ \A k \in Keys(uniqueIDsInfo) :
              LET ts == Get(uniqueIDsInfo, k).traces
              IN \A i \in 1..Len(ts) - 1 : Number(ts[i + 1].id) = Number(ts[i].id) + 1
        /\ {Number(id) : id \in TraceIds(uniqueIDsInfo)} = 1..TraceLen(outFilesAllInfo)
        /\ \A id \in TraceIds(uniqueIDsInfo) : id = String(Number(id))

\* three documents with traces were merged, one of them with two traces
C3_Witness ==
    /\ Merged
    /\ Len(outFilesAllInfo) = 3
    /\ \A i \in 1..3 : Len(outFilesAllInfo[i].value.traces) >= 1
    /\ \E i \in 1..3 : Len(outFilesAllInfo[i].value.traces) = 2

HasUndefinedRef(obj) == \E i \in 1..Len(obj) : Undefined \in RefsOf(obj[i].value)

Dangling(obj) == \E i \in 1..Len(obj) : ~RefsResolve(obj[i].value)

\* C6: once the files read hold a group naming a trace id absent from its
\* document, the request ends in the failure response, and no structure
\* with an undefined reference was handed to createFileFromInfo.
C6_DanglingIsFatal ==
    (pc = "done" /\ Dangling(outFilesAllInfo)) =>
        /\ Len(response) = 1 /\ response[1].status = 500
        /\ \A c \in 1..Len(persisted) : ~HasUndefinedRef(persisted[c])

\* the same batch with its documents inserted in ascending order
AscendingBatch(obj) ==
    LET ks == Ascending(Keys(obj))
    IN [i \in 1..Len(ks) |-> [key |-> ks[i], value |-> Get(obj, ks[i])]]

Normalized == pc \in {"awaitExtract", "done"} /\ PromiseAllState(inv) = "fulfilled"

\* the positions of the hints: the odd indices of the source, which counts from 0
HintPositions == {i \in 1..Len(awaited) : (i - 1) % 2 = 1}

Contains(s, pat) == \E i \in 1..(Len(s) - Len(pat) + 1) : SubSeq(s, i, i + Len(pat) - 1) = pat

\* s holds an underscore directly after = or directly before an operator
StrayUnderscore(s) ==
    \/ Contains(s, <<"=", "_">>)
    \/ Contains(s, <<"_", "=">>)
    \/ \E c \in CmpNames : Contains(s, <<"_", BS, c>>)

SumForm(s) == regexExec(s).ok /\ regexExec(s).sum

Braced(op, payload) == op \o <<BS, "{">> \o payload \o <<BS, "}">>

\* C8 as claimed: a hint of the summation form becomes the operator and, in
\* \{ \}, the whole bracket content with its summation symbol, trimmed and
\* without the trailing 3; =_{\sum i=1}^{n}3 becomes =\{\sum i=1\}.
C8_KeepsSummationSymbol ==
    Normalized =>
        \A i \in HintPositions :
            /\ SumForm(awaited[i]) =>
                  results[i] = Braced(regexExec(awaited[i]).op,
                                      trim(stripTrailing3(regexExec(awaited[i]).group2)))
            /\ awaited[i] = SumExample =>
                  results[i] = <<"=", BS, "{", BS, "sum", " ", "i", "=", "1", BS, "}">>

\* C8 as amended: the payload is what follows the summation symbol and the
\* white space after it, up to the first closing brace, without one trailing
\* 3 and trimmed; the output is the operator and the payload in \{ \}, less
\* the underscores the cleanup removes, and holds no summation symbol that
\* the payload does not hold; =_{\sum i=1}^{n}3 becomes =\{i=1\}.
C8_DropsSummationSymbol ==
    Normalized =>
        \A i \in HintPositions :
            /\ SumForm(awaited[i]) =>
                  LET m == regexExec(awaited[i])
                      payload == trim(stripTrailing3(m.body))
                  IN /\ \E w \in SeqsUpTo(WhiteSpace, Len(m.group2)) :
                            m.group2 = <<BS, "sum">> \o w \o m.body
                     /\ ~Contains(m.body, <<"}">>)
                     /\ results[i] = cleanup(Braced(m.op, payload))
                     /\ ~StrayUnderscore(payload) => results[i] = Braced(m.op, payload)
                     /\ ~Contains(payload, <<"sum">>) => ~Contains(results[i], <<"sum">>)
            /\ awaited[i] = SumExample =>
                  results[i] = <<"=", BS, "{", "i", "=", "1", BS, "}">>

\* a hint of the summation form with text before the operator, white space
\* and a 3 in the bracket and text after it has been normalized
C8_Witness ==
    /\ Normalized
    /\ \E i \in HintPositions :
          /\ SumForm(awaited[i])
          /\ awaited[i][1] = "x"
          /\ regexExec(awaited[i]).body # trim(stripTrailing3(regexExec(awaited[i]).body))
          /\ awaited[i][Len(awaited[i])] = "3"
          /\ results[i] # awaited[i]

\* C9 as claimed: a hint without a match of the pattern is returned as it
\* was extracted.
C9_Unchanged ==
    Normalized =>
        \A i \in HintPositions : ~regexExec(awaited[i]).ok => results[i] = awaited[i]

\* C9 as amended: a hint without a match of the pattern is returned as it
\* was extracted if it holds no underscore directly after = or directly
\* before an operator and no ={\{ ; with such an underscore it is returned
\* shorter.
C9_UnchangedUnlessCleaned ==
    Normalized =>
        \A i \in HintPositions :
            ~regexExec(awaited[i]).ok =>
                /\ (~StrayUnderscore(awaited[i]) /\ ~Contains(awaited[i], <<"=", "{", BS, "{">>))
                      => results[i] = awaited[i]
                /\ StrayUnderscore(awaited[i]) => Len(results[i]) < Len(awaited[i])

\* a hint without a match that holds an underscore after = was normalized,
\* and so was one without any such underscore
C9_Witness ==
    /\ Normalized
    /\ \E i \in HintPositions :
          /\ ~regexExec(awaited[i]).ok
          /\ Contains(awaited[i], <<"=", "_">>)
          /\ Contains(awaited[i], <<"{">>)
          /\ results[i] # awaited[i]

(***************************************************************************)
(* Properties of the request                                               *)
(***************************************************************************)
\* what the recognizer's output for document number d holds after LaTeX:
Recognized(d) ==
    CASE d = 2 -> <<"x", ",", " ", "y">>
      [] d = 5 -> SumExample
      [] OTHER -> SetExample

\* C4: when all recognizer runs succeed the result list has the length of
\* the input and its i-th entry is the recognizer's output for the i-th
\* document, whatever the completion order.
C4_InputOrder ==
    (pc # "awaitAll" /\ PromiseAllState(inv) = "fulfilled") =>
        /\ Len(awaited) = Len(lastWrittenNumbers)
        /\ Len(results) = Len(lastWrittenNumbers)
        /\ \A i \in Indices : awaited[i] = Recognized(lastWrittenNumbers[i])
        /\ \A r \in 1..Len(response) :
              response[r].status = 200 => Len(response[r].body) = Len(lastWrittenNumbers)

\* the batch [5, 2, 8] whose runs completed in the order 8, 2, 5
C4_Witness ==
    /\ pc = "normalize"
    /\ lastWrittenNumbers = <<5, 2, 8>>
    /\ order = <<3, 2, 1>>

\* C5: once a recognizer run has failed, no result list is ever sent, and
\* the request ends with the single failure response.
C5_FailFast ==
    (\E i \in Indices : inv[i] = "failed") =>
        /\ \A r \in 1..Len(response) : response[r].status = 500
        /\ pc \in {"awaitAll", "done"}
        /\ pc = "done" => Len(response) = 1

\* of three runs the first to complete succeeded, a later one failed, and the
\* request has ended
C5_Witness ==
    /\ pc = "done"
    /\ Len(lastWrittenNumbers) = 3
    /\ Len(order) >= 2
    /\ inv[order[1]] = "ok"
    /\ \E i \in Indices : inv[i] = "failed"
    /\ Len(response) = 1

AllSucceeded == \A i \in Indices : inv[i] = "ok"

\* C10: the merge starts only once every recognizer run has succeeded; a
\* result list is sent only after the merged structure was handed over; at
\* most one response is sent, and exactly one when the request has ended.
C10_MergeAfterRecognition ==
    /\ (pc = "awaitExtract" \/ outFilesAllInfo # <<>> \/ persisted # <<>>) => AllSucceeded
    /\ \A r \in 1..Len(response) :
          response[r].status = 200 =>
             /\ pc = "done"
             /\ Len(persisted) = 1
             /\ persisted[1] = uniqueIDsInfo
             /\ response[r].body = results
    /\ Len(response) <= 1
    /\ pc = "done" <=> Len(response) = 1
    /\ Len(persisted) <= 1

\* a request of three documents ended with the result list
C10_Witness ==
    /\ pc = "done"
    /\ Len(lastWrittenNumbers) = 3
    /\ Len(response) = 1
    /\ response[1].status = 200
    /\ persisted # <<>>

====
